---- MODULE Spec2Model ----
\* KillLossSpike (llmfoundry/callbacks/kill_loss_spike_callback.py): a callback
\* that watches the training loss through a rolling window, counts consecutive
\* outliers against the window mean, counts window entries above a loss cap,
\* and logs and/or raises when either detector signals.
\*
\* Numbers.  Losses are integers.  The window mean np.mean(loss_window) is the
\* exact rational Sum/Len, kept as a record [n |-> Sum, d |-> Len] with d > 0;
\* a comparison against it is cross-multiplied by d.  Python's round() is
\* round-half-to-even (RoundHalfEven).
EXTENDS Integers, Sequences, FiniteSets

\* ---------------------------------------------------------------- constants
_MIN_WINDOW_SIZE == 100
_MAX_LOSS_CAP == 10
\* _WINDOW_FRACTION = 0.05 = 1 / _WINDOW_FRACTION_DEN
_WINDOW_FRACTION_DEN == 20

\* Default constructor arguments (patience = 4, outlier_multiplier = 2).
DefaultPatience == 4
DefaultMultiplier == 2

\* ------------------------------------------------------------------ bounds
\* Per-step calls followed in a run whose window can fill.
MaxSteps == 7
\* Per-step calls followed in a run whose window is too large to fill.
MaxWarmSteps == 3
\* patience ranges over 0 .. MaxPatience in runs.
MaxPatience == 1
\* Largest observation of a run; the smallest is -1.
MaxLoss == 2

Losses == (0 - 1) .. MaxLoss
\* window sizes a caller passes so that the window fills within MaxSteps
SmallWindows == {2, 3}
\* loss caps a caller passes, besides the value of _MAX_LOSS_CAP
SmallCaps == {1}

\* ------------------------------------------------------------------- state
VARIABLES
    \* fields of the KillLossSpike object
    enabled, log_only, patience, outlier_multiplier, outlier_counter,
    user_defined_window_size, window_size, loss_window, maxlen,
    user_defined_loss_cap, loss_cap,
    \* what the caller passed to the constructor
    window_size_passed, loss_cap_passed, arg_window_size, arg_loss_cap,
    \* the host: state.max_duration, state.dataloader_len, the number of
    \* MosaicMLLogger destinations of the logger, whether state.timestamp.batch
    \* counts the batch that is ending, the number of batch_end calls so far
    max_duration, dataloader_len, destinations, counts_current, calls,
    \* the latest call: the loss it read, the window mean it computed, the
    \* value of state.timestamp.batch during it, what it did in order, what it
    \* raised, what a detector called on its own returned, and the value of
    \* outlier_counter when the spike detector was entered
    train_loss, running_loss_avg, current_step, events, raised, result,
    counter_before,
    \* where the host is: "init", "fit", "raised"; "test", "returned"
    pc

objvars == <<enabled, log_only, patience, outlier_multiplier, outlier_counter,
             user_defined_window_size, window_size, loss_window, maxlen,
             user_defined_loss_cap, loss_cap>>
argvars == <<window_size_passed, loss_cap_passed, arg_window_size, arg_loss_cap>>
hostvars == <<max_duration, dataloader_len, destinations, counts_current, calls>>
callvars == <<train_loss, running_loss_avg, current_step, events, raised, result,
              counter_before>>
vars == <<objvars, argvars, hostvars, callvars, pc>>

\* ----------------------------------------------------------------- helpers
Max(a, b) == IF a >= b THEN a ELSE b
Min(a, b) == IF a <= b THEN a ELSE b

RECURSIVE SeqSum(_)
SeqSum(s) == IF s = <<>> THEN 0 ELSE Head(s) + SeqSum(Tail(s))

RECURSIVE SeqMax(_)
SeqMax(s) == IF Len(s) = 1 THEN Head(s) ELSE Max(Head(s), SeqMax(Tail(s)))

\* np.mean(self.loss_window), exact
Mean(w) == [n |-> SeqSum(w), d |-> Len(w)]

\* Python round(n / d) for d > 0: nearest integer, a tie goes to the even one
RoundHalfEven(n, d) ==
    LET q == n \div d
        r == n - q * d
    IN  IF 2 * r < d THEN q
        ELSE IF 2 * r > d THEN q + 1
        ELSE IF q % 2 = 0 THEN q ELSE q + 1

\* deque.append on a deque without maxlen: nothing is evicted
Append_deque_NoEvict(w, cap, v) == Append(w, v)

\* deque.appendleft in place of append: the new entry becomes the oldest
Append_deque_Left(w, cap, v) ==
    IF cap = 0 THEN <<>>
    ELSE IF Len(w) = cap THEN <<v>> \o SubSeq(w, 1, Len(w) - 1)
    ELSE <<v>> \o w

\* deque.append on a deque of capacity cap
Append_deque(w, cap, v) ==
    IF cap = 0 THEN <<>>
    ELSE IF Len(w) = cap THEN Append(Tail(w), v)
    ELSE Append(w, v)

NoError == [exc |-> "none", args |-> <<>>]
NoDuration == [unit |-> "none", value |-> 0]
NoMean == [n |-> 0, d |-> 1]
\* dataloader_len is None
NoLen == 0 - 1

Event(op, key) == [op |-> op, key |-> key]

\* ------------------------------------------------------------ the detectors
\* _detect_loss_spike with a strict comparison: a tie is no outlier
DetectLossSpike_StrictOutlier(loss, avg, counter) ==
    IF loss * avg.d > avg.n * outlier_multiplier
    THEN [signal |-> counter + 1 > patience, counter |-> counter + 1]
    ELSE IF counter > 0
    THEN [signal |-> FALSE, counter |-> 0]
    ELSE [signal |-> FALSE, counter |-> counter]

\* _detect_loss_spike where a non-outlier lowers the counter by one
DetectLossSpike_Decay(loss, avg, counter) ==
    IF loss * avg.d >= avg.n * outlier_multiplier
    THEN [signal |-> counter + 1 > patience, counter |-> counter + 1]
    ELSE IF counter > 0
    THEN [signal |-> FALSE, counter |-> counter - 1]
    ELSE [signal |-> FALSE, counter |-> counter]

\* _detect_loss_spike resetting the counter when it signals (edge-triggered)
DetectLossSpike_ResetOnSignal(loss, avg, counter) ==
    IF loss * avg.d >= avg.n * outlier_multiplier
    THEN IF counter + 1 > patience
         THEN [signal |-> TRUE, counter |-> 0]
         ELSE [signal |-> FALSE, counter |-> counter + 1]
    ELSE IF counter > 0
    THEN [signal |-> FALSE, counter |-> 0]
    ELSE [signal |-> FALSE, counter |-> counter]

\* _detect_loss_spike leaving the counter alone on a non-outlier
DetectLossSpike_NoReset(loss, avg, counter) ==
    IF loss * avg.d >= avg.n * outlier_multiplier
    THEN [signal |-> counter + 1 > patience, counter |-> counter + 1]
    ELSE [signal |-> FALSE, counter |-> counter]

\* _detect_loss_spike with self.outlier_counter = counter: the signal and the
\* new outlier_counter
DetectLossSpike(loss, avg, counter) ==
    IF loss * avg.d >= avg.n * outlier_multiplier
    THEN [signal |-> counter + 1 > patience, counter |-> counter + 1]
    ELSE IF counter > 0
    THEN [signal |-> FALSE, counter |-> 0]
    ELSE [signal |-> FALSE, counter |-> counter]

\* sum(1 for loss in self.loss_window if loss > self.loss_cap)
HighLossCount(w, cap) == Cardinality({i \in 1 .. Len(w) : w[i] > cap})

\* _detect_high_losses comparing against window_size // 2
DetectHighLosses_IntDiv(step, w, cap) ==
    IF step < window_size * 2 THEN FALSE
    ELSE HighLossCount(w, cap) >= window_size \div 2

\* _detect_high_losses without the buffer period
DetectHighLosses_NoBuffer(step, w, cap) ==
    2 * HighLossCount(w, cap) >= window_size

\* _detect_high_losses, with self.loss_window = w and self.loss_cap = cap
DetectHighLosses(step, w, cap) ==
    IF step < window_size * 2 THEN FALSE
    ELSE 2 * HighLossCount(w, cap) >= window_size

\* _log_metadata: one log_metadata call per MosaicMLLogger destination
LogMetadata(key) == [i \in 1 .. destinations |-> Event("log_metadata", key)]

\* _handle_loss_spike raising before it logs
HandleLossSpike_RaiseFirst(avg, counter) ==
    [events |-> IF log_only THEN LogMetadata("loss_spike")
                ELSE <<Event("raise", "LossSpikeError")>>,
     raised |-> IF log_only THEN NoError
                ELSE [exc |-> "LossSpikeError",
                      args |-> <<outlier_multiplier,
                                 RoundHalfEven(avg.n, avg.d), counter>>]]

\* _handle_loss_spike truncating the mean (int) where the code rounds it
HandleLossSpike_Floor(avg, counter) ==
    [events |-> LogMetadata("loss_spike") \o
                (IF log_only THEN <<>> ELSE <<Event("raise", "LossSpikeError")>>),
     raised |-> IF log_only THEN NoError
                ELSE [exc |-> "LossSpikeError",
                      args |-> <<outlier_multiplier, avg.n \div avg.d, counter>>]]

\* _handle_loss_spike, with self.outlier_counter = counter
HandleLossSpike(avg, counter) ==
    [events |-> LogMetadata("loss_spike") \o
                (IF log_only THEN <<>> ELSE <<Event("raise", "LossSpikeError")>>),
     raised |-> IF log_only THEN NoError
                ELSE [exc |-> "LossSpikeError",
                      args |-> <<outlier_multiplier,
                                 RoundHalfEven(avg.n, avg.d), counter>>]]

\* _handle_high_losses raising whatever log_only says
HandleHighLosses_AlwaysRaise(cap) ==
    [events |-> LogMetadata("high_loss") \o <<Event("raise", "HighLossError")>>,
     raised |-> [exc |-> "HighLossError", args |-> <<cap, window_size>>]]

\* _handle_high_losses, with self.loss_cap = cap
HandleHighLosses(cap) ==
    [events |-> LogMetadata("high_loss") \o
                (IF log_only THEN <<>> ELSE <<Event("raise", "HighLossError")>>),
     raised |-> IF log_only THEN NoError
                ELSE [exc |-> "HighLossError", args |-> <<cap, window_size>>]]

\* -------------------------------------------------------------- __init__
\* KillLossSpike(log_only, patience, outlier_multiplier, window_size, loss_cap)
\* on the process of global rank `rank`
Construct(rank, lo, pat, mult, ws, cap) ==
    /\ enabled = (rank = 0)
    /\ log_only = lo
    /\ patience = pat
    /\ outlier_multiplier = mult
    /\ outlier_counter = 0
    /\ user_defined_window_size = (ws # _MIN_WINDOW_SIZE)
    /\ window_size = ws
    /\ loss_window = <<>>
    /\ maxlen = ws
    /\ user_defined_loss_cap = (cap # _MAX_LOSS_CAP)
    /\ loss_cap = cap

\* The caller passes window_size / loss_cap, or leaves the default.
Call(rank, lo, pat, mult, ws_passed, ws, cap_passed, cap) ==
    /\ window_size_passed = ws_passed
    /\ loss_cap_passed = cap_passed
    /\ arg_window_size = (IF ws_passed THEN ws ELSE _MIN_WINDOW_SIZE)
    /\ arg_loss_cap = (IF cap_passed THEN cap ELSE _MAX_LOSS_CAP)
    /\ Construct(rank, lo, pat, mult,
                 IF ws_passed THEN ws ELSE _MIN_WINDOW_SIZE,
                 IF cap_passed THEN cap ELSE _MAX_LOSS_CAP)

NoCall ==
    /\ train_loss = 0
    /\ running_loss_avg = NoMean
    /\ current_step = 0
    /\ events = <<>>
    /\ raised = NoError
    /\ result = FALSE
    /\ counter_before = 0

\* ------------------------------------------------------------- fit_start
\* total_training_steps without the multiplication by the epoch count
TotalTrainingSteps_IgnoreEpochs(md, dl) ==
    IF md.unit = "EPOCH" /\ dl # NoLen THEN dl
    ELSE IF md.unit = "BATCH" THEN md.value
    ELSE 0

\* total_training_steps of fit_start
TotalTrainingSteps(md, dl) ==
    IF md.unit = "EPOCH" /\ dl # NoLen THEN dl * md.value
    ELSE IF md.unit = "BATCH" THEN md.value
    ELSE 0

\* the window size fit_start leaves
FitWindowSize(md, dl) ==
    IF ~user_defined_window_size /\ md.unit # "none"
    THEN Max(window_size,
             RoundHalfEven(TotalTrainingSteps(md, dl), _WINDOW_FRACTION_DEN))
    ELSE window_size

FitStart ==
    /\ pc = "init"
    /\ window_size' = FitWindowSize(max_duration, dataloader_len)
    /\ loss_window' = <<>>
    /\ maxlen' = window_size'
    /\ pc' = "fit"
    /\ UNCHANGED <<enabled, log_only, patience, outlier_multiplier,
                   outlier_counter, user_defined_window_size,
                   user_defined_loss_cap, loss_cap>>
    /\ UNCHANGED <<argvars, hostvars, callvars>>
\* ------------------------------------------------------------- batch_end
\* int(state.timestamp.batch) during the next batch_end call
TimestampBatch == calls + (IF counts_current THEN 1 ELSE 0)

\* the loss cap after the calibration of batch_end (lines 170-171)
CalibratedLossCap(step) ==
    IF ~user_defined_loss_cap /\ step = window_size
    THEN Min(SeqMax(loss_window), loss_cap)
    ELSE loss_cap

\* batch_end calls the host makes in a run: the window of a run that passed a
\* small window size fills, the window of the others is only warmed up
StepsFollowed ==
    IF window_size \in SmallWindows THEN MaxSteps ELSE MaxWarmSteps

\* batch_end testing state.loss only after it counted the call as an outlier
BatchEndNotTensor_AfterCount ==
    /\ pc = "fit"
    /\ calls < StepsFollowed
    /\ calls' = calls + 1
    /\ current_step' = TimestampBatch
    /\ outlier_counter' = outlier_counter + 1
    /\ events' = <<Event("raise", "NotImplementedError")>>
    /\ raised' = [exc |-> "NotImplementedError", args |-> <<>>]
    /\ pc' = "raised"
    /\ UNCHANGED <<enabled, log_only, patience, outlier_multiplier,
                   user_defined_window_size, window_size, loss_window, maxlen,
                   user_defined_loss_cap, loss_cap>>
    /\ UNCHANGED <<argvars, train_loss, running_loss_avg, result,
                   counter_before>>
    /\ UNCHANGED <<max_duration, dataloader_len, destinations, counts_current>>

\* state.loss is not a torch.Tensor
BatchEndNotTensor ==
    /\ pc = "fit"
    /\ calls < StepsFollowed
    /\ calls' = calls + 1
    /\ current_step' = TimestampBatch
    /\ events' = <<Event("raise", "NotImplementedError")>>
    /\ raised' = [exc |-> "NotImplementedError", args |-> <<>>]
    /\ pc' = "raised"
    /\ UNCHANGED <<objvars, argvars, train_loss, running_loss_avg, result,
                   counter_before>>
    /\ UNCHANGED <<max_duration, dataloader_len, destinations, counts_current>>

\* batch_end running the spike detector as soon as the window is not empty
BatchEndWarmup_Detect(loss) ==
    /\ pc = "fit"
    /\ calls < StepsFollowed
    /\ Len(loss_window) # window_size
    /\ calls' = calls + 1
    /\ current_step' = TimestampBatch
    /\ train_loss' = loss
    /\ events' = <<Event("append", "")>>
    /\ raised' = NoError
    /\ loss_window' = Append_deque(loss_window, maxlen, loss)
    /\ outlier_counter' =
          (IF loss_window = <<>> THEN outlier_counter
           ELSE DetectLossSpike(loss, Mean(loss_window), outlier_counter).counter)
    /\ UNCHANGED <<enabled, log_only, patience, outlier_multiplier,
                   user_defined_window_size, window_size,
                   maxlen, user_defined_loss_cap, loss_cap>>
    /\ UNCHANGED <<argvars, running_loss_avg, result, counter_before, pc>>
    /\ UNCHANGED <<max_duration, dataloader_len, destinations, counts_current>>

\* state.loss is a tensor holding `loss`, the window is not full
BatchEndWarmup(loss) ==
    /\ pc = "fit"
    /\ calls < StepsFollowed
    /\ Len(loss_window) # window_size
    /\ calls' = calls + 1
    /\ current_step' = TimestampBatch
    /\ train_loss' = loss
    /\ events' = <<Event("append", "")>>
    /\ raised' = NoError
    /\ loss_window' = Append_deque(loss_window, maxlen, loss)
    /\ UNCHANGED <<enabled, log_only, patience, outlier_multiplier,
                   outlier_counter, user_defined_window_size, window_size,
                   maxlen, user_defined_loss_cap, loss_cap>>
    /\ UNCHANGED <<argvars, running_loss_avg, result, counter_before, pc>>
    /\ UNCHANGED <<max_duration, dataloader_len, destinations, counts_current>>

\* batch_end with `if` in place of `elif`: the persistent-high-value check
\* runs whatever the spike detector returned (log-only mode; outside it the
\* spike handler raises first)
BatchEndFull_BothChecks(loss) ==
    /\ pc = "fit"
    /\ calls < StepsFollowed
    /\ Len(loss_window) = window_size
    /\ LET step == TimestampBatch
           cap == CalibratedLossCap(step)
           avg == Mean(loss_window)
           spike == DetectLossSpike(loss, avg, outlier_counter)
           spiked == IF spike.signal THEN HandleLossSpike(avg, spike.counter)
                     ELSE [events |-> <<>>, raised |-> NoError]
           go_on == spiked.raised = NoError
           high == go_on /\ DetectHighLosses(step, loss_window, cap)
           handled == IF high THEN HandleHighLosses(cap)
                      ELSE [events |-> <<>>, raised |-> spiked.raised]
           trace ==
               <<Event("_detect_loss_spike", "")>> \o
               (IF spike.signal THEN <<Event("_handle_loss_spike", "")>>
                ELSE <<>>) \o
               spiked.events \o
               (IF go_on THEN <<Event("_detect_high_losses", "")>> ELSE <<>>) \o
               (IF high THEN <<Event("_handle_high_losses", "")>> ELSE <<>>) \o
               handled.events
       IN  /\ calls' = calls + 1
           /\ current_step' = step
           /\ train_loss' = loss
           /\ running_loss_avg' = avg
           /\ loss_cap' = cap
           /\ counter_before' = outlier_counter
           /\ outlier_counter' = spike.counter
           /\ raised' = handled.raised
           /\ IF handled.raised = NoError
              THEN /\ loss_window' = Append_deque(loss_window, maxlen, loss)
                   /\ events' = Append(trace, Event("append", ""))
                   /\ pc' = pc
              ELSE /\ loss_window' = loss_window
                   /\ events' = trace
                   /\ pc' = "raised"
    /\ UNCHANGED <<enabled, log_only, patience, outlier_multiplier,
                   user_defined_window_size, window_size, maxlen,
                   user_defined_loss_cap>>
    /\ UNCHANGED <<argvars, result>>
    /\ UNCHANGED <<max_duration, dataloader_len, destinations, counts_current>>

\* state.loss is a tensor holding `loss`, the window is full
BatchEndFull(loss) ==
    /\ pc = "fit"
    /\ calls < StepsFollowed
    /\ Len(loss_window) = window_size
    /\ LET step == TimestampBatch
           cap == CalibratedLossCap(step)
           avg == Mean(loss_window)
           spike == DetectLossSpike(loss, avg, outlier_counter)
           high == IF spike.signal THEN FALSE ELSE DetectHighLosses(step, loss_window, cap)
           handled ==
               IF spike.signal THEN HandleLossSpike(avg, spike.counter)
               ELSE IF high THEN HandleHighLosses(cap)
               ELSE [events |-> <<>>, raised |-> NoError]
           trace ==
               <<Event("_detect_loss_spike", "")>> \o
               (IF spike.signal THEN <<Event("_handle_loss_spike", "")>>
                ELSE <<Event("_detect_high_losses", "")>> \o
                     (IF high THEN <<Event("_handle_high_losses", "")>>
                      ELSE <<>>)) \o
               handled.events
       IN  /\ calls' = calls + 1
           /\ current_step' = step
           /\ train_loss' = loss
           /\ running_loss_avg' = avg
           /\ loss_cap' = cap
           /\ counter_before' = outlier_counter
           /\ outlier_counter' = spike.counter
           /\ raised' = handled.raised
           /\ IF handled.raised = NoError
              THEN /\ loss_window' = Append_deque(loss_window, maxlen, loss)
                   /\ events' = Append(trace, Event("append", ""))
                   /\ pc' = pc
              ELSE /\ loss_window' = loss_window
                   /\ events' = trace
                   /\ pc' = "raised"
    /\ UNCHANGED <<enabled, log_only, patience, outlier_multiplier,
                   user_defined_window_size, window_size, maxlen,
                   user_defined_loss_cap>>
    /\ UNCHANGED <<argvars, result>>
    /\ UNCHANGED <<max_duration, dataloader_len, destinations, counts_current>>

BatchEnd ==
    \/ BatchEndNotTensor
    \/ \E loss \in Losses : BatchEndWarmup(loss)
    \/ \E loss \in Losses : BatchEndFull(loss)

\* ------------------------------------------------------------------ a run
Host(md, dl, dest, cc) ==
    /\ max_duration = md
    /\ dataloader_len = dl
    /\ destinations = dest
    /\ counts_current = cc
    /\ calls = 0

\* the run lengths a host is configured with
Durations ==
    {NoDuration, [unit |-> "TOKEN", value |-> 4000]}
    \cup {[unit |-> "EPOCH", value |-> e] : e \in {1, 2}}
    \cup {[unit |-> "BATCH", value |-> b] : b \in {1000, 2010, 2030, 2100}}
DataloaderLens == {NoLen, 1015}

Init ==
    /\ \E rank \in {0}, lo \in BOOLEAN, pat \in 0 .. MaxPatience,
          ws_passed \in BOOLEAN, ws \in SmallWindows \cup {_MIN_WINDOW_SIZE},
          cap_passed \in BOOLEAN, cap \in SmallCaps \cup {_MAX_LOSS_CAP} :
          /\ ws_passed \/ ws = _MIN_WINDOW_SIZE
          /\ cap_passed \/ cap = _MAX_LOSS_CAP
          /\ Call(rank, lo, pat, DefaultMultiplier, ws_passed, ws, cap_passed, cap)
    /\ \E dest \in 0 .. 1, cc \in BOOLEAN :
          Host([unit |-> "BATCH", value |-> 2100], NoLen, dest, cc)
    /\ NoCall
    /\ pc = "init"

Next == FitStart \/ BatchEnd

Spec == Init /\ [][Next]_vars
\* ------------------------------------------------- runs of every run length
\* The same callback under every run length of Durations and DataloaderLens,
\* in log-only mode with the default loss cap.
InitFit ==
    /\ \E ws_passed \in BOOLEAN, ws \in SmallWindows \cup {_MIN_WINDOW_SIZE} :
          /\ ws_passed \/ ws = _MIN_WINDOW_SIZE
          /\ Call(0, TRUE, MaxPatience, DefaultMultiplier, ws_passed, ws,
                  FALSE, _MAX_LOSS_CAP)
    /\ \E md \in Durations, dl \in DataloaderLens : Host(md, dl, 0, TRUE)
    /\ NoCall
    /\ pc = "init"

SpecFit == InitFit /\ [][Next]_vars

\* ------------------------------------------------------ runs on every rank
\* The callback built on the process of global rank 0 and on another one,
\* with a small window, a small loss cap and one MosaicMLLogger destination.
InitRanks ==
    /\ \E rank \in {0, 1}, lo \in BOOLEAN, ws \in SmallWindows, cap \in SmallCaps :
          Call(rank, lo, 0, DefaultMultiplier, TRUE, ws, TRUE, cap)
    /\ Host([unit |-> "BATCH", value |-> 2100], NoLen, 1, TRUE)
    /\ NoCall
    /\ pc = "init"

SpecRanks == InitRanks /\ [][Next]_vars

\* ------------------------------------------------- the detectors on their own
\* tests/callbacks/test_kill_loss_spike_callback.py: the callback is built
\* with window_size = 10 and loss_cap = 10, a test sets outlier_counter or
\* loss_window directly and calls one detector.
TestWindowSize == 10
TestWindows == {TestWindowSize, TestWindowSize + 1}
TestMultipliers == {DefaultMultiplier, DefaultMultiplier + 1}
TestLosses == (0 - 2) .. 4
TestMeans == {[n |-> a, d |-> b] : a \in (0 - 2) .. 4, b \in 1 .. 3}

RECURSIVE SeqsOver(_, _)
SeqsOver(S, n) ==
    IF n = 0 THEN {<<>>}
    ELSE {Append(w, x) : w \in SeqsOver(S, n - 1), x \in S}

InitTest ==
    /\ \E pat \in 0 .. DefaultPatience, mult \in TestMultipliers,
          ws \in TestWindows :
          Call(0, TRUE, pat, mult, TRUE, ws, TRUE, _MAX_LOSS_CAP)
    /\ Host(NoDuration, NoLen, 0, TRUE)
    /\ NoCall
    /\ pc = "test"

\* test_detect_loss_spike_*: set outlier_counter, call _detect_loss_spike
TestDetectLossSpike ==
    /\ pc = "test"
    /\ \E counter \in 0 .. DefaultPatience + 1, loss \in TestLosses,
          avg \in TestMeans :
          LET spike == DetectLossSpike(loss, avg, counter)
          IN  /\ counter_before' = counter
              /\ train_loss' = loss
              /\ running_loss_avg' = avg
              /\ outlier_counter' = spike.counter
              /\ result' = spike.signal
    /\ pc' = "returned_spike"
    /\ UNCHANGED <<enabled, log_only, patience, outlier_multiplier,
                   user_defined_window_size, window_size, loss_window, maxlen,
                   user_defined_loss_cap, loss_cap>>
    /\ UNCHANGED <<argvars, hostvars, current_step, events, raised>>

\* test_detect_high_losses_*: set loss_window, call _detect_high_losses
TestDetectHighLosses ==
    /\ pc = "test"
    /\ \E w \in SeqsOver({loss_cap, loss_cap + 1}, window_size),
          step \in {2 * window_size - 1, 2 * window_size, 2 * window_size + 1} :
          /\ loss_window' = w
          /\ current_step' = step
          /\ result' = DetectHighLosses(step, w, loss_cap)
    /\ pc' = "returned_high"
    /\ UNCHANGED <<enabled, log_only, patience, outlier_multiplier,
                   outlier_counter, user_defined_window_size, window_size,
                   maxlen, user_defined_loss_cap, loss_cap>>
    /\ UNCHANGED <<argvars, hostvars, train_loss, running_loss_avg, events,
                   raised, counter_before>>

NextTest == TestDetectLossSpike \/ TestDetectHighLosses

SpecTest == InitTest /\ [][NextTest]_vars
\* ================================================================== claims
InEvents(e) == \E i \in 1 .. Len(events) : events[i] = e
SpikeHandled == InEvents(Event("_handle_loss_spike", ""))
HighHandled == InEvents(Event("_handle_high_losses", ""))
\* the latest observation is an outlier against the latest mean
IsOutlier == train_loss * running_loss_avg.d >= running_loss_avg.n * outlier_multiplier

\* C1: the spike detector signals exactly when the observation is at least
\* mean * outlier_multiplier (a tie counts) and the counter, incremented by
\* one, is above patience; an outlier raises the counter by exactly one, so
\* no signal comes before the (patience+1)-th consecutive outlier.
C1_SpikeSignalExactly ==
    pc = "returned_spike" =>
        /\ result = (IsOutlier /\ counter_before + 1 > patience)
        /\ IsOutlier => outlier_counter = counter_before + 1
        /\ counter_before < patience => ~result
        /\ result => outlier_counter >= patience + 1

C1_Witness ==
    /\ pc = "returned_spike"
    /\ patience = 4 /\ outlier_multiplier = 2 /\ counter_before = 4
    /\ train_loss = 4 /\ running_loss_avg = [n |-> 2, d |-> 1]
    /\ result /\ outlier_counter = 5

\* C2: a non-outlier observation evaluated while outlier_counter > 0 sets the
\* counter to exactly 0 and signals nothing, whatever the streak was.
C2_NonOutlierResets ==
    (pc = "returned_spike" /\ ~IsOutlier /\ counter_before > 0) =>
        (outlier_counter = 0 /\ ~result)

C2_Witness ==
    /\ pc = "returned_spike" /\ ~IsOutlier
    /\ counter_before > patience + 1
    /\ outlier_counter = 0 /\ ~result

\* C3: past the buffer period the persistent-high-value check signals exactly
\* when the entries strictly above loss_cap number at least window_size / 2
\* as a real number, that is at least the half rounded up.
C3_HighLossesRealHalf ==
    (pc = "returned_high" /\ current_step >= 2 * window_size) =>
        result = (HighLossCount(loss_window, loss_cap) >= (window_size + 1) \div 2)

C3_Witness ==
    /\ pc = "returned_high" /\ current_step >= 2 * window_size
    /\ window_size = 11 /\ HighLossCount(loss_window, loss_cap) = 5
    /\ ~result

\* C4: a per-step call whose step index is below 2 * window_size produces no
\* persistent-high-value handling, diagnostic or terminal condition, whatever
\* the window holds.
C4_BufferPeriod ==
    current_step < 2 * window_size =>
        /\ ~HighHandled
        /\ ~InEvents(Event("log_metadata", "high_loss"))
        /\ raised.exc # "HighLossError"

C4_Witness ==
    /\ pc = "fit" /\ current_step < 2 * window_size
    /\ InEvents(Event("_detect_high_losses", ""))
    /\ Len(loss_window) = window_size
    /\ \A i \in 1 .. Len(loss_window) : loss_window[i] > loss_cap

\* C5: in log-only mode no call raises the spike or the persistent-high-value
\* condition; a detection only logs, the call returns after appending the
\* observation and the run goes on.
C5_LogOnlyNeverRaises ==
    log_only =>
        /\ raised.exc \notin {"LossSpikeError", "HighLossError"}
        /\ (SpikeHandled \/ HighHandled) =>
              /\ raised = NoError
              /\ pc = "fit"
              /\ events[Len(events)] = Event("append", "")
              /\ ~\E i \in 1 .. Len(events) : events[i].op = "raise"

C5_Witness ==
    /\ log_only /\ HighHandled /\ destinations = 1
    /\ InEvents(Event("log_metadata", "high_loss"))
    /\ pc = "fit"

C7_CalibratedAtWindowSize ==
    (counts_current /\ ~loss_cap_passed /\ pc = "fit" /\ calls = window_size) =>
        loss_cap = Min(SeqMax(loss_window), _MAX_LOSS_CAP)

\* C8: a loss_cap passed to the constructor, the value 10 included, is the
\* loss cap in every state.
C8_PassedLossCapKept ==
    loss_cap_passed => loss_cap = arg_loss_cap

\* C9: a window_size passed to the constructor, the value 100 included, is
\* the window size and the capacity of the window after fit_start.
C9_PassedWindowSizeKept ==
    (window_size_passed /\ pc # "init") =>
        (window_size = arg_window_size /\ maxlen = arg_window_size)

\* C10: when window_size is not passed, after fit_start and at every later
\* step it is max(100, round(0.05 * total)): at least 100, and above 100 only
\* as an integer nearest to total / 20, where total is epochs * steps per
\* epoch, or the batch budget, or 0 when neither is known.
PlannedSteps ==
    IF max_duration.unit = "EPOCH" /\ dataloader_len # NoLen
    THEN max_duration.value * dataloader_len
    ELSE IF max_duration.unit = "BATCH" THEN max_duration.value
    ELSE 0

C10_CalibratedWindowSize ==
    (~window_size_passed /\ pc # "init") =>
        /\ window_size >= _MIN_WINDOW_SIZE
        /\ maxlen = window_size
        /\ 20 * window_size - PlannedSteps >= 0 - 10
        /\ window_size > _MIN_WINDOW_SIZE => 20 * window_size - PlannedSteps <= 10

C10_Witness ==
    /\ ~window_size_passed /\ pc = "fit" /\ calls > 0
    /\ max_duration = [unit |-> "EPOCH", value |-> 2] /\ dataloader_len = 1015
    /\ window_size = 102
\* C11: in every state the window holds at most window_size entries and its
\* capacity is window_size, so a window of window_size entries is a full one.
C11_WindowBounded ==
    /\ Len(loss_window) <= window_size
    /\ maxlen = window_size

C11_Witness ==
    /\ pc = "fit" /\ calls > window_size
    /\ Len(loss_window) = window_size /\ maxlen = window_size

\* a batch_end call has just been made
BatchEndStep == calls' = calls + 1

\* C12: a call whose loss is not a single tensor raises NotImplementedError
\* at once: window, outlier_counter and loss_cap are unchanged, no detector
\* runs and nothing is logged.
C12_ShapeViolationFailsFast ==
    [][(BatchEndStep /\ raised'.exc = "NotImplementedError") =>
          /\ objvars' = objvars
          /\ events' = <<Event("raise", "NotImplementedError")>>
          /\ pc' = "raised"]_vars

C12_Witness ==
    /\ raised.exc = "NotImplementedError" /\ pc = "raised"
    /\ Len(loss_window) = window_size /\ outlier_counter > 0

\* C13: a callback built on a process of global rank other than 0 runs no
\* detector, logs nothing and raises no terminal condition in any call.
C13_OtherRanksNoOp ==
    ~enabled =>
        /\ ~InEvents(Event("_detect_loss_spike", ""))
        /\ ~InEvents(Event("_detect_high_losses", ""))
        /\ ~\E i \in 1 .. Len(events) : events[i].op = "log_metadata"
        /\ raised.exc \notin {"LossSpikeError", "HighLossError"}
\* the distance of the integer k from the rational avg, times 2 * avg.d
TwiceDistance(k, avg) ==
    IF k * avg.d >= avg.n THEN 2 * (k * avg.d - avg.n) ELSE 2 * (avg.n - k * avg.d)

\* C14, as claimed: the LossSpikeError carries the outlier_multiplier, the
\* window mean the detector compared against and the outlier_counter of the
\* step; the HighLossError carries loss_cap and window_size.
C14_ErrorCarriesMean ==
    /\ raised.exc = "LossSpikeError" =>
          /\ raised.args[1] = outlier_multiplier
          /\ raised.args[2] * running_loss_avg.d = running_loss_avg.n
          /\ raised.args[3] = outlier_counter
    /\ raised.exc = "HighLossError" => raised.args = <<loss_cap, window_size>>

\* C14, amended: the LossSpikeError carries the outlier_multiplier, the window
\* mean rounded to the nearest integer (a tie to the even one) and the
\* outlier_counter of the step, this step's increment included; the
\* HighLossError carries loss_cap and window_size.
C14_ErrorCarriesRoundedMean ==
    /\ raised.exc = "LossSpikeError" =>
          /\ raised.args[1] = outlier_multiplier
          /\ TwiceDistance(raised.args[2], running_loss_avg) <= running_loss_avg.d
          /\ TwiceDistance(raised.args[2], running_loss_avg) = running_loss_avg.d
                => raised.args[2] % 2 = 0
          /\ raised.args[3] = outlier_counter
          /\ outlier_counter = counter_before + 1
    /\ raised.exc = "HighLossError" => raised.args = <<loss_cap, window_size>>

C14_Witness ==
    /\ raised.exc = "LossSpikeError"
    /\ running_loss_avg.n % running_loss_avg.d # 0
    /\ raised.args[2] * running_loss_avg.d > running_loss_avg.n

\* C15, as claimed: after every call that accepted a scalar loss, that loss is
\* the newest entry of the window, whatever the outcome and the mode.
C15_AlwaysAppended ==
    (calls > 0 /\ raised.exc # "NotImplementedError") =>
        (loss_window # <<>> /\ loss_window[Len(loss_window)] = train_loss)

\* C15, amended: after every call that accepted a scalar loss and returned
\* (raised no terminal condition), that loss is the newest entry of the
\* window, the oldest entry evicted if the window was full, whether or not a
\* detector signalled; a call that raises a terminal condition leaves the
\* window as it was.
C15_AppendedUnlessRaised ==
    [][BatchEndStep =>
          /\ raised'.exc = "none" =>
                loss_window' =
                    (IF Len(loss_window) = window_size THEN Tail(loss_window)
                     ELSE loss_window) \o <<train_loss'>>
          /\ raised'.exc # "none" => loss_window' = loss_window]_vars

C15_Witness ==
    /\ log_only /\ SpikeHandled /\ raised = NoError
    /\ calls > window_size + 1
    /\ Len(loss_window) = window_size
    /\ loss_window[Len(loss_window)] = train_loss
    /\ loss_window[1] # train_loss

\* C16: a call invokes at most one handler; when the spike detector signals,
\* the persistent-high-value check is not evaluated and its handler not
\* invoked, even on a window that satisfies it; the persistent-high-value
\* handler runs only in a call where the spike detector did not signal.
C16_SpikeTakesPriority ==
    /\ ~(SpikeHandled /\ HighHandled)
    /\ SpikeHandled =>
          /\ ~InEvents(Event("_detect_high_losses", ""))
          /\ ~InEvents(Event("log_metadata", "high_loss"))
          /\ raised.exc # "HighLossError"
    /\ HighHandled =>
          /\ InEvents(Event("_detect_loss_spike", ""))
          /\ ~(IsOutlier /\ counter_before + 1 > patience)

C16_Witness ==
    /\ log_only /\ SpikeHandled /\ ~HighHandled
    /\ current_step >= 2 * window_size
    /\ Len(loss_window) = window_size
    /\ \A i \in 1 .. Len(loss_window) : loss_window[i] > loss_cap

\* C17: while the window holds fewer than window_size entries a call only
\* appends the loss: outlier_counter and loss_cap are unchanged, no detector
\* is evaluated and no handler invoked, whatever the loss and the step index.
C17_WarmupOnlyAppends ==
    [][(BatchEndStep /\ Len(loss_window) < window_size
          /\ raised'.exc # "NotImplementedError") =>
          /\ loss_window' = Append(loss_window, train_loss')
          /\ events' = <<Event("append", "")>>
          /\ raised' = NoError
          /\ outlier_counter' = outlier_counter
          /\ loss_cap' = loss_cap
          /\ pc' = pc]_vars

C17_Witness ==
    /\ pc = "fit" /\ calls = window_size /\ Len(loss_window) = window_size
    /\ events = <<Event("append", "")>>
    /\ train_loss * (Len(loss_window) - 1) >=
          outlier_multiplier * (SeqSum(loss_window) - train_loss)
    /\ patience = 0 /\ outlier_counter = 0 /\ raised = NoError
\* the latest call evaluated the spike detector
Evaluated == InEvents(Event("_detect_loss_spike", ""))

\* C18: in a log-only run the firing does not reset outlier_counter: a call
\* that finds the counter above patience and an outlier again signals again,
\* invokes the spike handler again and leaves the counter one higher.
C18_LevelTriggered ==
    log_only =>
        /\ SpikeHandled => (outlier_counter = counter_before + 1
                            /\ outlier_counter > patience /\ pc = "fit")
        /\ (Evaluated /\ counter_before > patience /\ IsOutlier) => SpikeHandled
        /\ (Evaluated /\ counter_before > patience /\ ~IsOutlier) =>
              (~SpikeHandled /\ outlier_counter = 0)

C18_Witness ==
    /\ log_only /\ SpikeHandled
    /\ counter_before > patience + 1
    /\ outlier_counter = counter_before + 1

\* C19: outlier_counter is the length of the current streak: 0 at
\* construction, one more after each evaluated step whose loss is an outlier
\* against the window mean of that step, 0 after an evaluated step whose loss
\* is not, and unchanged by every other step.
C19_CounterIsStreak ==
    /\ outlier_counter = 0
    /\ [][/\ outlier_counter' >= 0
          /\ (BatchEndStep /\ Len(loss_window) = window_size
                /\ raised'.exc # "NotImplementedError") =>
                outlier_counter' =
                    (IF train_loss' * Len(loss_window) >=
                           outlier_multiplier * SeqSum(loss_window)
                     THEN outlier_counter + 1 ELSE 0)
          /\ ~(BatchEndStep /\ Len(loss_window) = window_size
                /\ raised'.exc # "NotImplementedError") =>
                outlier_counter' = outlier_counter]_vars

C19_Witness ==
    /\ Evaluated /\ ~IsOutlier
    /\ counter_before >= 2 /\ outlier_counter = 0

\* C20: a spike is signalled only at a step whose loss is strictly greater
\* than the mean of the window before insertion, for zero and negative
\* losses too; a run of equal losses never signals a spike.
C20_SpikeAboveMean ==
    SpikeHandled => train_loss * running_loss_avg.d > running_loss_avg.n
====
